---- MODULE Spec2Model ----
(***************************************************************************)
(* Model of generate.py, the static blog generator: one build reads        *)
(* config.toml and the files of posts/, sorts the posts by their date      *)
(* string, and writes the post pages, the index page, the tag pages, the   *)
(* feed and the static assets.  Paths are relative to BASE_DIR.  The       *)
(* Markdown converter, the template engine and the TOML parser are         *)
(* external: a rendered page is the record of the template's name and the  *)
(* arguments handed to it.  The file system is assumed to accept every     *)
(* write, and tag and file names are assumed to hold no path separator.    *)
(***************************************************************************)
EXTENDS Integers, Sequences, FiniteSets, TLC

(***************************************************************************)
(* Bounds of the model.                                                    *)
(***************************************************************************)
\* The largest number of files in posts/.
MaxPosts == 2
\* The largest number of lines of a post's "tags" metadata.
MaxTags == 2

(***************************************************************************)
(* Strings.  Python compares str values by code point, left to right.      *)
(***************************************************************************)
Char(s, i) == SubSeq(s, i, i)

Digits == "0123456789"

IsDigit(c) == \E i \in 1..10 : Char(Digits, i) = c

DigitValue(c) == (CHOOSE i \in 1..10 : Char(Digits, i) = c) - 1

DigitChar(n) == Char(Digits, n + 1)

\* ord() of the characters a date string is made of.
Ord(c) ==
    CASE c = "+" -> 43
      [] c = "-" -> 45
      [] c = "." -> 46
      [] IsDigit(c) -> 48 + DigitValue(c)
      [] c = ":" -> 58
      [] c = "T" -> 84
      [] c = "Z" -> 90

RECURSIVE StrLessFrom(_, _, _)
StrLessFrom(s, t, i) ==
    IF i > Len(s) THEN i <= Len(t)
    ELSE IF i > Len(t) THEN FALSE
    ELSE IF Char(s, i) = Char(t, i) THEN StrLessFrom(s, t, i + 1)
    ELSE Ord(Char(s, i)) < Ord(Char(t, i))

\* s < t on Python str values.
StrLess(s, t) == StrLessFrom(s, t, 1)

IsSpace(c) == c = " "

RECURSIVE lstrip(_)
lstrip(s) == IF Len(s) > 0 /\ IsSpace(Char(s, 1))
             THEN lstrip(SubSeq(s, 2, Len(s))) ELSE s

RECURSIVE rstrip(_)
rstrip(s) == IF Len(s) > 0 /\ IsSpace(Char(s, Len(s)))
             THEN rstrip(SubSeq(s, 1, Len(s) - 1)) ELSE s

\* str.strip()
strip(s) == rstrip(lstrip(s))

\* "".join(lines)
RECURSIVE join(_)
join(lines) == IF lines = <<>> THEN "" ELSE Head(lines) \o join(Tail(lines))

(***************************************************************************)
(* datetime.fromisoformat and datetime.isoformat, on the texts             *)
(* YYYY-MM-DD?HH:MM:SS[.ffffff][(+|-)HH:MM].                               *)
(***************************************************************************)
AllDigits(s) == \A i \in 1..Len(s) : IsDigit(Char(s, i))

RECURSIVE ToInt(_)
ToInt(s) == IF Len(s) = 0 THEN 0
            ELSE 10 * ToInt(SubSeq(s, 1, Len(s) - 1)) + DigitValue(Char(s, Len(s)))

NoOffset == <<>>

\* The text of a UTC offset, "" or (+|-)HH:MM, is well formed.
OffsetTextOk(s) ==
    \/ s = ""
    \/ /\ Len(s) = 6
       /\ Char(s, 1) \in {"+", "-"}
       /\ AllDigits(SubSeq(s, 2, 3))
       /\ Char(s, 4) = ":"
       /\ AllDigits(SubSeq(s, 5, 6))

\* The tzinfo of an offset text: none, or the offset in minutes.
ParseOffset(s) ==
    IF s = "" THEN NoOffset
    ELSE LET m == 60 * ToInt(SubSeq(s, 2, 3)) + ToInt(SubSeq(s, 5, 6))
         IN  << IF Char(s, 1) = "-" THEN 0 - m ELSE m >>

HasFraction(s) == Len(s) >= 26 /\ Char(s, 20) = "."

RestOf(s) == IF HasFraction(s) THEN SubSeq(s, 27, Len(s)) ELSE SubSeq(s, 20, Len(s))

\* fromisoformat raises ValueError on any other text.
IsIsoFormat(s) ==
    /\ Len(s) >= 19
    /\ AllDigits(SubSeq(s, 1, 4)) /\ Char(s, 5) = "-"
    /\ AllDigits(SubSeq(s, 6, 7)) /\ Char(s, 8) = "-"
    /\ AllDigits(SubSeq(s, 9, 10))
    /\ AllDigits(SubSeq(s, 12, 13)) /\ Char(s, 14) = ":"
    /\ AllDigits(SubSeq(s, 15, 16)) /\ Char(s, 17) = ":"
    /\ AllDigits(SubSeq(s, 18, 19))
    /\ (HasFraction(s) => AllDigits(SubSeq(s, 21, 26)))
    /\ OffsetTextOk(RestOf(s))

fromisoformat(s) ==
    [ year        |-> ToInt(SubSeq(s, 1, 4)),
      month       |-> ToInt(SubSeq(s, 6, 7)),
      day         |-> ToInt(SubSeq(s, 9, 10)),
      hour        |-> ToInt(SubSeq(s, 12, 13)),
      minute      |-> ToInt(SubSeq(s, 15, 16)),
      second      |-> ToInt(SubSeq(s, 18, 19)),
      microsecond |-> IF HasFraction(s) THEN ToInt(SubSeq(s, 21, 26)) ELSE 0,
      tzinfo      |-> ParseOffset(RestOf(s)) ]

RECURSIVE Pad(_, _)
\* n in decimal, zero-padded to w digits.
Pad(n, w) == IF w = 0 THEN "" ELSE Pad(n \div 10, w - 1) \o DigitChar(n % 10)

Abs(n) == IF n < 0 THEN 0 - n ELSE n

\* dt.isoformat(sep): the fraction is printed only when it is not zero, the
\* offset only when the datetime carries one; the clock fields are printed
\* as they are, never shifted to UTC.
isoformat(dt, sep) ==
    Pad(dt.year, 4) \o "-" \o Pad(dt.month, 2) \o "-" \o Pad(dt.day, 2) \o sep
    \o Pad(dt.hour, 2) \o ":" \o Pad(dt.minute, 2) \o ":" \o Pad(dt.second, 2)
    \o (IF dt.microsecond = 0 THEN "" ELSE "." \o Pad(dt.microsecond, 6))
    \o (IF dt.tzinfo = NoOffset THEN ""
        ELSE LET m == dt.tzinfo[1]
             IN  (IF m < 0 THEN "-" ELSE "+")
                 \o Pad(Abs(m) \div 60, 2) \o ":" \o Pad(Abs(m) % 60, 2))

to_rfc_3339(iso_datetime) == isoformat(fromisoformat(iso_datetime), "T") \o "Z"

(***************************************************************************)
(* The inputs of a build: config.toml, the files of posts/ with the        *)
(* metadata the Markdown converter extracts from each (a map from key to   *)
(* the lines of its value), and the static tree.                           *)
(***************************************************************************)
RequiredKeys == {"title", "description", "url"}

ConfigValues == [title |-> "Blog", description |-> "D", url |-> "https://ex.com/"]

\* config.toml: absent, or a document with all of the keys or all but one.
ConfigInputs ==
    { [readable |-> r, doc |-> [k \in ks |-> ConfigValues[k]]] :
        r \in BOOLEAN, ks \in {RequiredKeys} }
    \cup { [readable |-> TRUE, doc |-> [k \in RequiredKeys \ {m} |-> ConfigValues[k]]] :
             m \in RequiredKeys }

FullConfig == [readable |-> TRUE, doc |-> [k \in RequiredKeys |-> ConfigValues[k]]]

\* Date texts: two local ones (10:00 and 10:00:00.5) and two zoned ones
\* (09:30 UTC and 09:00 UTC).
DateTexts ==
    { "2023-01-01T10:00:00", "2023-01-01T10:00:00.500000",
      "2023-01-01T09:30:00+00:00", "2023-01-01T11:00:00+02:00" }

\* The date text of the i-th file of a directory whose dates all differ.
PlainDate(i) == "2023-0" \o DigitChar(i) \o "-01T10:00:00"

RawTags == { " a", "b" }

\* The lines of a "tags" value: a key that is present has at least one line.
TagLines == UNION { [1..n -> RawTags] : n \in 1..MaxTags }

\* Well-formed posts with any date text, one with an empty "tags" value,
\* and the malformed ones: no title, no date, a date that is no ISO text.
DateMetas ==
    { [title |-> <<"T">>, date |-> <<d>>] : d \in DateTexts }
    \cup { [title |-> <<"T">>, date |-> <<d>>, tags |-> <<" a">>] : d \in DateTexts }
    \cup { [title |-> <<"T">>, date |-> <<"2023-01-01T10:00:00">>, tags |-> <<"">>],
           [date |-> <<"2023-01-01T10:00:00">>],
           [title |-> <<"T">>],
           [title |-> <<"T">>, date |-> <<"yesterday">>] }

\* The "tags" values of a post: the key is absent (<<>>) or holds lines.
TagChoices == {<<>>} \cup TagLines

WithTags(d, t) ==
    IF t = <<>> THEN [title |-> <<"T">>, date |-> <<d>>]
    ELSE [title |-> <<"T">>, date |-> <<d>>, tags |-> t]

\* The directories of at most MaxPosts well-formed posts with distinct dates
\* and any tags.
TagDirectories ==
    UNION { { [i \in 1..n |-> WithTags(PlainDate(i), t[i])] : t \in [1..n -> TagChoices] } :
            n \in 0..MaxPosts }

RECURSIVE SetToSeq(_)
SetToSeq(S) == IF S = {} THEN <<>>
               ELSE LET x == CHOOSE x \in S : TRUE IN <<x>> \o SetToSeq(S \ {x})

\* The directories of at most MaxPosts files with metadata from Metas.  The
\* file names p1, p2, ... are interchangeable, so they are handed out in one
\* fixed order of the metadata; the listing order is chosen in each build.
Directories(Metas) ==
    LET all == SetToSeq(Metas)
        K   == Len(all)
    IN  UNION { { [i \in 1..n |-> all[ix[i]]] :
                    ix \in { f \in [1..n -> 1..K] : \A i \in 1..(n - 1) : f[i] <= f[i + 1] } } :
                n \in 0..MaxPosts }

\* post_file.stem of the i-th file of posts/.
Stem(i) == "p" \o DigitChar(i)

StaticTree == { "style.css" }

(***************************************************************************)
(* Paths (relative to BASE_DIR), files and exceptions.                     *)
(***************************************************************************)
SITE_DIR == <<"site">>
POSTS_DIR == <<"posts">>
TAGS_DIR == <<"tags">>
FEED_FILENAME == "feed.rss"

Path(dir, name) == [dir |-> dir, name |-> name]

File(path, template, args) ==
    [path |-> path, content |-> [template |-> template, args |-> args]]

\* open(path, "w") and write: the file is created or replaced.
Write(fs, f) == { g \in fs : g.path # f.path } \cup { f }

RECURSIVE WriteAll(_, _)
WriteAll(fs, fseq) == IF fseq = <<>> THEN fs
                      ELSE WriteAll(Write(fs, Head(fseq)), Tail(fseq))

\* An exception: its class and its argument; NoError stands for none.
NoError == [type |-> "", arg |-> ""]
Raise(type, arg) == [type |-> type, arg |-> arg]

(***************************************************************************)
(* The functions of generate.py.                                           *)
(***************************************************************************)
\* The exception the Post(...) call of parse_markdown raises on a file's
\* metadata: its arguments are evaluated in the order date, tags, title.
PostError(meta) ==
    IF "date" \notin DOMAIN meta THEN Raise("KeyError", "date")
    ELSE IF ~IsIsoFormat(meta.date[1]) THEN Raise("ValueError", meta.date[1])
    ELSE IF "title" \notin DOMAIN meta THEN Raise("KeyError", "title")
    ELSE NoError

\* [tag.strip() for tag in md.Meta.get("tags", [])]
StripTags(meta) ==
    LET lines == IF "tags" \in DOMAIN meta THEN meta.tags ELSE <<>>
    IN  [i \in 1..Len(lines) |-> strip(lines[i])]

\* The Post record of the file stem.md; description is <<>> for None.
Post(stem, meta) ==
    [ date        |-> to_rfc_3339(meta.date[1]),
      description |-> IF "description" \in DOMAIN meta
                      THEN <<join(meta.description)>> ELSE <<>>,
      filename    |-> stem \o ".html",
      html        |-> "<" \o stem \o ">",
      tags        |-> StripTags(meta),
      title       |-> join(meta.title),
      url         |-> "/" \o stem \o ".html" ]

\* list(parse_markdown()) over the files in the order iterdir() lists them:
\* the posts, or the exception of the first file that raises one.
RECURSIVE parse_markdown(_, _)
parse_markdown(dir, listing) ==
    IF listing = <<>> THEN [error |-> NoError, posts |-> <<>>]
    ELSE LET i == Head(listing)
             e == PostError(dir[i])
         IN  IF e # NoError THEN [error |-> e, posts |-> <<>>]
             ELSE LET rest == parse_markdown(dir, Tail(listing))
                  IN  IF rest.error # NoError THEN rest
                      ELSE [error |-> NoError,
                            posts |-> <<Post(Stem(i), dir[i])>> \o rest.posts]

\* The orders in which iterdir() may list n files.
Listings(n) == { f \in [1..n -> 1..n] : \A i, j \in 1..n : f[i] = f[j] => i = j }

\* key=lambda x: x.date
SortKey(post) == post.date

\* One step of the stable descending sort: p goes behind every post whose
\* key is not smaller than its own.
RECURSIVE InsertReverse(_, _)
InsertReverse(sorted, p) ==
    IF sorted = <<>> THEN <<p>>
    ELSE IF StrLess(SortKey(Head(sorted)), SortKey(p)) THEN <<p>> \o sorted
    ELSE <<Head(sorted)>> \o InsertReverse(Tail(sorted), p)

RECURSIVE SortFrom(_, _)
SortFrom(sorted, rest) ==
    IF rest = <<>> THEN sorted
    ELSE SortFrom(InsertReverse(sorted, Head(rest)), Tail(rest))

\* posts.sort(key=lambda x: x.date, reverse=True)
sort(ps) == SortFrom(<<>>, ps)

\* urljoin(base, "feed.rss") for a base URL with a path: the base up to its
\* last "/", then the name.
RECURSIVE UrlDir(_)
UrlDir(url) == IF Len(url) = 0 \/ Char(url, Len(url)) = "/" THEN url
               ELSE UrlDir(SubSeq(url, 1, Len(url) - 1))

feed_url(cfg) == UrlDir(cfg["url"]) \o FEED_FILENAME

\* The first key among ks, in the order they are read, that cfg lacks.
RECURSIVE MissingKey(_, _)
MissingKey(cfg, ks) ==
    IF ks = <<>> THEN NoError
    ELSE IF Head(ks) \notin DOMAIN cfg THEN Raise("KeyError", Head(ks))
    ELSE MissingKey(cfg, Tail(ks))

generate_posts(ps) ==
    [i \in 1..Len(ps) |->
        File(Path(SITE_DIR, ps[i].filename), "post.html",
             [post |-> ps[i], post_html |-> ps[i].html])]

generate_index_page(cfg, ps) ==
    LET e == MissingKey(cfg, <<"url", "title", "description">>)
    IN  IF e # NoError THEN [error |-> e, files |-> <<>>]
        ELSE [error |-> NoError,
              files |-> << File(Path(SITE_DIR, "index.html"), "index.html",
                                [feed_url    |-> feed_url(cfg),
                                 title       |-> cfg["title"],
                                 description |-> cfg["description"],
                                 posts       |-> ps]) >>]

\* A slip in the grouping: the post is put in front of its tag's list.
AppendTaggedInFront(tagged, tag, post) ==
    IF \E i \in 1..Len(tagged) : tagged[i].tag = tag
    THEN [i \in 1..Len(tagged) |->
            IF tagged[i].tag = tag
            THEN [tag |-> tag, posts |-> <<post>> \o tagged[i].posts]
            ELSE tagged[i]]
    ELSE Append(tagged, [tag |-> tag, posts |-> <<post>>])

\* tagged_posts[tag].append(post) on the defaultdict, whose keys keep the
\* order of their first insertion.
AppendTagged(tagged, tag, post) ==
    IF \E i \in 1..Len(tagged) : tagged[i].tag = tag
    THEN [i \in 1..Len(tagged) |->
            IF tagged[i].tag = tag
            THEN [tag |-> tag, posts |-> Append(tagged[i].posts, post)]
            ELSE tagged[i]]
    ELSE Append(tagged, [tag |-> tag, posts |-> <<post>>])

RECURSIVE TagLoop(_, _, _)
TagLoop(tagged, post, tags) ==
    IF tags = <<>> THEN tagged
    ELSE TagLoop(AppendTagged(tagged, Head(tags), post), post, Tail(tags))

RECURSIVE PostLoop(_, _)
PostLoop(tagged, ps) ==
    IF ps = <<>> THEN tagged
    ELSE PostLoop(TagLoop(tagged, Head(ps), Head(ps).tags), Tail(ps))

tagged_posts(ps) == PostLoop(<<>>, ps)

generate_tag_pages(cfg, ps) ==
    LET tagged == tagged_posts(ps)
        e == IF tagged = <<>> THEN NoError ELSE MissingKey(cfg, <<"url">>)
    IN  IF e # NoError THEN [error |-> e, files |-> <<>>]
        ELSE [error |-> NoError,
              files |-> [i \in 1..Len(tagged) |->
                  File(Path(TAGS_DIR, tagged[i].tag \o ".html"), "index.html",
                       [title       |-> "Posts tagged \"" \o tagged[i].tag \o "\"",
                        description |-> "Posts tagged \"" \o tagged[i].tag \o "\"",
                        feed_url    |-> feed_url(cfg),
                        posts       |-> tagged[i].posts])]]

\* The arguments of template.render are evaluated in order: feed_url(config),
\* then posts[0].
generate_feed(cfg, ps) ==
    LET e == MissingKey(cfg, <<"url">>)
    IN  IF e # NoError THEN [error |-> e, files |-> <<>>]
        ELSE IF ps = <<>>
        THEN [error |-> Raise("IndexError", "list index out of range"), files |-> <<>>]
        ELSE [error |-> NoError,
              files |-> << File(Path(SITE_DIR, FEED_FILENAME), "feed.rss",
                                [config        |-> cfg,
                                 posts         |-> ps,
                                 self_url      |-> feed_url(cfg),
                                 last_pub_date |-> ps[1].date]) >>]

\* shutil.copytree(static, site/static, dirs_exist_ok=True)
copy_static_files ==
    SetToSeq({ File(Path(SITE_DIR \o <<"static">>, n), "", [copy_of |-> n]) : n \in StaticTree })

\* A slip in the sequence: the post pages are rendered before the sort.
generate_render_before_sort ==
    << "load_config", "ensure_dir_exists", "parse_markdown", "generate_posts", "sort",
       "generate_index_page", "generate_tag_pages", "generate_feed", "copy_static_files" >>

\* The body of generate(), one entry per call.
generate ==
    << "load_config", "ensure_dir_exists", "parse_markdown", "sort", "generate_posts",
       "generate_index_page", "generate_tag_pages", "generate_feed", "copy_static_files" >>

\* Where control is after the call named stage returns.
Following(stage) ==
    LET i == CHOOSE i \in 1..Len(generate) : generate[i] = stage
    IN  IF i = Len(generate) THEN "done" ELSE generate[i + 1]

(***************************************************************************)
(* The state: the inputs (config, sources), the file system (dirs, files), *)
(* the running build (pc, cfg, posts, error) and its history (stages: the  *)
(* calls of generate() made so far; writes: the files they wrote; failed:  *)
(* the call that raised, "" when none did), and the files the first build  *)
(* left (prevFiles) once a second one runs.                                *)
(***************************************************************************)
VARIABLES config, sources, dirs, files, run, pc, cfg, posts, error, stages, writes,
          failed, prevFiles

vars == <<config, sources, dirs, files, run, pc, cfg, posts, error, stages, writes,
          failed, prevFiles>>

inputs == <<config, sources>>

\* posts/ exists before the first build when it holds a file.
InitialDirs(dir) == IF Len(dir) > 0 THEN {POSTS_DIR} ELSE {}

Init ==
    /\ \/ config \in ConfigInputs /\ sources \in Directories(DateMetas)
       \/ config = FullConfig /\ sources \in TagDirectories
    /\ dirs = InitialDirs(sources)
    /\ files = {}
    /\ run = "first"
    /\ pc = generate[1]
    /\ cfg = <<>>
    /\ posts = <<>>
    /\ error = NoError
    /\ stages = <<>>
    /\ writes = {}
    /\ failed = ""
    /\ prevFiles = {}

\* The call named stage runs, raising e (NoError: it returns) after writing
\* the files fseq: an exception leaves generate() and ends the build.
Call(stage, e, fseq) ==
    /\ pc = stage
    /\ stages' = Append(stages, stage)
    /\ error' = e
    /\ failed' = IF e = NoError THEN failed ELSE stage
    /\ pc' = IF e = NoError THEN Following(stage) ELSE "aborted"
    /\ files' = WriteAll(files, fseq)
    /\ writes' = writes \cup { [stage |-> stage, path |-> fseq[i].path] : i \in 1..Len(fseq) }

LoadConfig ==
    /\ Call("load_config",
            IF config.readable THEN NoError ELSE Raise("FileNotFoundError", "config.toml"),
            <<>>)
    /\ cfg' = IF config.readable THEN config.doc ELSE cfg
    /\ UNCHANGED <<inputs, dirs, run, posts, prevFiles>>

EnsureDirs ==
    /\ Call("ensure_dir_exists", NoError, <<>>)
    /\ dirs' = dirs \cup {SITE_DIR, POSTS_DIR, TAGS_DIR}
    /\ UNCHANGED <<inputs, run, cfg, posts, prevFiles>>

ParseMarkdown ==
    \E listing \in Listings(Len(sources)) :
        LET r == parse_markdown(sources, listing)
        IN  /\ Call("parse_markdown", r.error, <<>>)
            /\ posts' = r.posts
            /\ UNCHANGED <<inputs, dirs, run, cfg, prevFiles>>

Sort ==
    /\ Call("sort", NoError, <<>>)
    /\ posts' = sort(posts)
    /\ UNCHANGED <<inputs, dirs, run, cfg, prevFiles>>

GeneratePosts ==
    /\ Call("generate_posts", NoError, generate_posts(posts))
    /\ UNCHANGED <<inputs, dirs, run, cfg, posts, prevFiles>>

GenerateIndexPage ==
    LET r == generate_index_page(cfg, posts)
    IN  /\ Call("generate_index_page", r.error, r.files)
        /\ UNCHANGED <<inputs, dirs, run, cfg, posts, prevFiles>>

GenerateTagPages ==
    LET r == generate_tag_pages(cfg, posts)
    IN  /\ Call("generate_tag_pages", r.error, r.files)
        /\ UNCHANGED <<inputs, dirs, run, cfg, posts, prevFiles>>

GenerateFeed ==
    LET r == generate_feed(cfg, posts)
    IN  /\ Call("generate_feed", r.error, r.files)
        /\ UNCHANGED <<inputs, dirs, run, cfg, posts, prevFiles>>

CopyStaticFiles ==
    /\ Call("copy_static_files", NoError, copy_static_files)
    /\ dirs' = dirs \cup {SITE_DIR \o <<"static">>}
    /\ UNCHANGED <<inputs, run, cfg, posts, prevFiles>>

\* The program is started again on the same inputs and the same file system.
Rerun ==
    /\ pc \in {"done", "aborted"}
    /\ run = "first"
    /\ run' = "second"
    /\ prevFiles' = files
    /\ pc' = generate[1]
    /\ cfg' = <<>>
    /\ posts' = <<>>
    /\ error' = NoError
    /\ stages' = <<>>
    /\ writes' = {}
    /\ failed' = ""
    /\ UNCHANGED <<inputs, dirs, files>>

Next ==
    \/ LoadConfig
    \/ EnsureDirs
    \/ ParseMarkdown
    \/ Sort
    \/ GeneratePosts
    \/ GenerateIndexPage
    \/ GenerateTagPages
    \/ GenerateFeed
    \/ CopyStaticFiles
    \/ Rerun

Spec == Init /\ [][Next]_vars

(***************************************************************************)
(* Notions the properties are stated in.                                   *)
(***************************************************************************)
Range(f) == { f[i] : i \in DOMAIN f }

IsPrefix(s, t) == Len(s) <= Len(t) /\ \A i \in 1..Len(s) : s[i] = t[i]

\* The call named stage was made in this build and returned.
Returned(stage) == stage \in Range(stages) /\ failed # stage

Leap(y) == y % 4 = 0 /\ (y % 100 # 0 \/ y % 400 = 0)

DaysBeforeMonth(y, m) ==
    <<0, 31, 59, 90, 120, 151, 181, 212, 243, 273, 304, 334>>[m]
    + (IF m > 2 /\ Leap(y) THEN 1 ELSE 0)

\* The day's number in the proleptic Gregorian calendar.
Ordinal(dt) ==
    (dt.year - 1) * 365 + (dt.year - 1) \div 4 - (dt.year - 1) \div 100
    + (dt.year - 1) \div 400 + DaysBeforeMonth(dt.year, dt.month) + dt.day

\* The instant a datetime denotes: the UTC minute, the second and the
\* microsecond.  A local datetime is read in a zone of offset zero.
Instant(dt) ==
    << (Ordinal(dt) * 24 + dt.hour) * 60 + dt.minute
         - (IF dt.tzinfo = NoOffset THEN 0 ELSE dt.tzinfo[1]),
       dt.second, dt.microsecond >>

Earlier(a, b) ==
    \/ a[1] < b[1]
    \/ a[1] = b[1] /\ a[2] < b[2]
    \/ a[1] = b[1] /\ a[2] = b[2] /\ a[3] < b[3]

\* The file of posts/ a Post record was made from.
SourceOf(post) == CHOOSE i \in 1..Len(sources) : Stem(i) \o ".html" = post.filename

\* publishedAt: the instant the post's date text denotes.
PublishedAt(post) == Instant(fromisoformat(sources[SourceOf(post)].date[1]))

DistinctInstants ==
    \A i, j \in 1..Len(posts) : i # j => PublishedAt(posts[i]) # PublishedAt(posts[j])

\* C1: when the posts' publishedAt are pairwise distinct instants, the list
\* handed to generate_index_page is in strictly descending order of instant:
\* of two adjacent posts the one listed first is the later instant.
C1_IndexDescendingByInstant ==
    (Returned("sort") /\ DistinctInstants) =>
        \A i \in 1..(Len(posts) - 1) :
            Earlier(PublishedAt(posts[i + 1]), PublishedAt(posts[i]))

FeedPath == Path(SITE_DIR, FEED_FILENAME)

FeedWritten == [stage |-> "generate_feed", path |-> FeedPath] \in writes

\* The last_pub_date argument of the feed this build rendered.
LastPubDate == (CHOOSE f \in files : f.path = FeedPath).content.args.last_pub_date

\* C2: the last_pub_date handed to the feed template is the publishedAt of
\* the most recent post: it is the date of a post than which no post of the
\* set has a later publishedAt.
C2_FeedDateIsNewest ==
    FeedWritten =>
        \E i \in 1..Len(posts) :
            /\ posts[i].date = LastPubDate
            /\ \A j \in 1..Len(posts) :
                 ~Earlier(PublishedAt(posts[i]), PublishedAt(posts[j]))

\* The posts of ps that carry tag t, in the order of ps.
Carrying(ps, t) == SelectSeq(ps, LAMBDA p : t \in Range(p.tags))

\* The tags carried by at least one post.
CarriedTags == UNION { Range(posts[i].tags) : i \in 1..Len(posts) }

NoDuplicates(seq) == \A i, j \in 1..Len(seq) : seq[i] = seq[j] => i = j

NoPostRepeatsATag == \A i \in 1..Len(posts) : NoDuplicates(posts[i].tags)

TagPageName(t) == t \o ".html"

\* The paths generate_tag_pages wrote in this build.
TagPagePaths == { w.path : w \in { v \in writes : v.stage = "generate_tag_pages" } }

FileAt(path) == CHOOSE f \in files : f.path = path

\* C3: when no post repeats a tag, generate_tag_pages renders one page per
\* tag carried by some post and none for any other tag, and the posts of
\* the page of tag t are the posts of the sorted Post Set that carry t, each
\* once and in the Post Set's order.
C3_TagPagesPartition ==
    (Returned("generate_tag_pages") /\ NoPostRepeatsATag) =>
        /\ { q.name : q \in TagPagePaths } = { TagPageName(t) : t \in CarriedTags }
        /\ Cardinality(TagPagePaths) = Cardinality(CarriedTags)
        /\ \A q \in TagPagePaths : \A t \in CarriedTags :
             q.name = TagPageName(t) =>
                FileAt(q).content.args.posts = Carrying(posts, t)

\* C3's case: two posts share a tag and one of them carries a second tag
\* that the other lacks; the tag pages have been written.
C3_Witness ==
    /\ Returned("generate_tag_pages")
    /\ NoPostRepeatsATag
    /\ \E t, u \in CarriedTags :
         /\ Len(Carrying(posts, t)) = 2
         /\ Len(Carrying(posts, u)) = 1
         /\ PublishedAt(posts[1]) # PublishedAt(posts[2])

OutputTagsDir == SITE_DIR \o <<"tags">>

\* C4: every tag page is written at tags/<tag>.html under the output root,
\* and after a successful build that file exists there for each tag.
C4_TagPagesUnderOutputRoot ==
    /\ \A q \in TagPagePaths : q.dir = OutputTagsDir
    /\ pc = "done" =>
         \A t \in CarriedTags :
            \E f \in files : f.path = Path(OutputTagsDir, TagPageName(t))

ConfigLacksField == config.readable /\ DOMAIN config.doc # RequiredKeys

\* C5: when config.toml lacks title, description or url, the build aborts
\* in load_config: no later call is made, no directory is created and no
\* file is written.
C5_ConfigErrorBeforeOutput ==
    ConfigLacksField =>
        /\ IsPrefix(stages, <<"load_config">>)
        /\ stages # <<>> => failed = "load_config"
        /\ writes = {}
        /\ run = "first" => dirs = InitialDirs(sources) /\ files = {}

\* C6: with zero posts, feed rendering ends in the dedicated
\* EmptyPostSetError, not in the IndexError of reading posts[0].
C6_EmptyPostSetError ==
    (sources = <<>> /\ "generate_feed" \in Range(stages)) =>
        /\ failed = "generate_feed"
        /\ error.type = "EmptyPostSetError"

SourcesLackingTitle == { i \in 1..Len(sources) : "title" \notin DOMAIN sources[i] }

\* C7: when a post source lacks a title, ingestion aborts the build with a
\* post-metadata error that names an offending source, and no file is
\* written for a source that lacks its title.
C7_MissingTitleIdentified ==
    (SourcesLackingTitle # {} /\ "parse_markdown" \in Range(stages)) =>
        /\ failed = "parse_markdown"
        /\ error.type = "PostMetadataError"
        /\ \E i \in 1..Len(sources) : PostError(sources[i]) # NoError /\ error.arg = Stem(i)
        /\ \A i \in SourcesLackingTitle : \A w \in writes : w.path.name # Stem(i) \o ".html"

\* C8: a second build on unchanged inputs leaves the files the first build
\* left, whatever order the directory listing returns in either build.
C8_SecondBuildIdentical ==
    (run = "second" /\ pc \in {"done", "aborted"}) => files = prevFiles

\* The order of the stages as documented.
DocumentedOrder ==
    << "load_config", "ensure_dir_exists", "parse_markdown", "sort", "generate_posts",
       "generate_index_page", "generate_tag_pages", "generate_feed", "copy_static_files" >>

RenderStages ==
    { "generate_posts", "generate_index_page", "generate_tag_pages", "generate_feed" }

\* The sorted order of a list is the order the sort gives it.
IsSorted(ps) == sort(ps) = ps

\* C9: the stages of a build run in the documented order; a render stage
\* runs only after every source has been ingested and the Post Set sorted;
\* once a stage has failed it stays the last stage of the build, and every
\* file written in the build was written by a stage that ran.
C9_StageOrder ==
    /\ IsPrefix(stages, DocumentedOrder)
    /\ (Range(stages) \cap RenderStages # {}) =>
          /\ Returned("parse_markdown") /\ Returned("sort")
          /\ Len(posts) = Len(sources)
          /\ IsSorted(posts)
    /\ failed # "" => pc = "aborted" /\ error # NoError /\ stages[Len(stages)] = failed
    /\ failed = "" => error = NoError /\ pc # "aborted"
    /\ \A w \in writes : w.stage \in Range(stages)
    /\ pc = "done" => stages = DocumentedOrder

\* C9's case: a build that ingested and sorted two posts, wrote their pages
\* and then failed in generate_index_page.
C9_Witness ==
    /\ failed = "generate_index_page"
    /\ Len(posts) = 2
    /\ Cardinality({ w \in writes : w.stage = "generate_posts" }) = 2

\* C10: the tags of every ingested Post are trimmed, non-empty and pairwise
\* distinct, and are the empty list when the source has no tags field; so
\* no post is listed twice on a tag page.
C10_TagsDeduplicated ==
    /\ \A i \in 1..Len(posts) :
         /\ \A k \in 1..Len(posts[i].tags) :
              posts[i].tags[k] # "" /\ strip(posts[i].tags[k]) = posts[i].tags[k]
         /\ NoDuplicates(posts[i].tags)
         /\ "tags" \notin DOMAIN sources[SourceOf(posts[i])] => posts[i].tags = <<>>
    /\ \A q \in TagPagePaths : NoDuplicates(FileAt(q).content.args.posts)

====
